---- MODULE Spec2Model ----
(***************************************************************************)
(* Voice calendar assistant (src/app.tsx): the two transcript extractors   *)
(* (processNaturalLanguage, App.processTranscript) and the session         *)
(* controller of the two page components (VoiceCalendarAssistant, App):    *)
(* capture toggle, submit pipeline, edit/delete, list reloads.             *)
(*                                                                         *)
(* Strings of the program are sequences of one-character strings, so that  *)
(* split(' '), indexOf and the time regex are computed as the code does.   *)
(* The external collaborators (stores, AI responder, speech recognizer)    *)
(* are modelled by their call contracts; every awaited call is a request   *)
(* the server handles at some later step and whose response is delivered   *)
(* to the awaiting continuation at some still later step.                  *)
(***************************************************************************)
EXTENDS Integers, Sequences, FiniteSets, TLC

VARIABLES
  component,      \* which page component is rendered
  mounted,        \* the component is mounted (the mount-effect cleanup has not run)
  isListening,    \* useState(false)
  transcript,     \* useState('')
  reminders,      \* useState([])
  events,         \* useState([])   (VoiceCalendarAssistant only)
  aiResponse,     \* useState('')
  isLoading,      \* useState(false)
  inputFocused,   \* DOM: the transcript <Input> has keyboard focus
  recognition,    \* recognitionRef.current: the speech recognizer
  reminderStore,  \* external reminder store (calendarApi)
  eventStore,     \* external event store (googleCalendarApi)
  nextItemId,     \* next id the stores hand out
  tasks,          \* async handler invocations suspended at an await
  nextTaskId,     \* number of async handler invocations started so far
  fetchSeq,       \* number of list fetches issued so far
  fetchLog,       \* per list: results of the completed successful fetches
  userEvents,     \* number of user and speech events handled so far
  input,          \* extraction harness: the input string
  draft,          \* extraction harness: the draft returned
  extracted       \* extraction harness: which extractor produced draft

ctlVars == <<component, mounted, isListening, transcript, reminders, events, aiResponse,
             isLoading, inputFocused, recognition, reminderStore, eventStore,
             nextItemId, tasks, nextTaskId, fetchSeq, fetchLog, userEvents>>
exVars == <<input, draft, extracted>>
vars == <<ctlVars, exVars>>

----------------------------------------------------------------------------
(* Bounds of the model *)

MaxTokens == 5      \* tokens of an extraction input
MaxEvents == 2      \* user, speech and unmount events per run

----------------------------------------------------------------------------
(* Strings *)

Undefined == <<"undefined">>     \* the JavaScript value undefined
Null == <<"null">>               \* the JavaScript value null
Digits == {"0", "1", "2", "3", "4", "5", "6", "7", "8", "9"}

On == <<"o", "n">>
At == <<"a", "t">>
DefaultTime == <<"1", "2", ":", "0", "0">>
\* new Date().toISOString().split('T')[0] under the clock of the run
Today == <<"2", "0", "2", "4", "-", "0", "5", "-", "3", "1">>

\* String.prototype.split(' ')
RECURSIVE Split(_)
Split(s) ==
  IF \E i \in 1..Len(s) : s[i] = " "
  THEN LET i == CHOOSE k \in 1..Len(s) :
                  s[k] = " " /\ \A j \in 1..(k - 1) : s[j] # " "
       IN <<SubSeq(s, 1, i - 1)>> \o Split(SubSeq(s, i + 1, Len(s)))
  ELSE <<s>>

\* Mutant of IndexOf: Array.prototype.lastIndexOf
LastIndexOf(words, w) ==
  IF \E i \in 1..Len(words) : words[i] = w
  THEN (CHOOSE k \in 1..Len(words) :
          words[k] = w /\ \A j \in (k + 1)..Len(words) : words[j] # w) - 1
  ELSE -1

\* Array.prototype.indexOf, 0-based, -1 when absent
IndexOf(words, w) ==
  IF \E i \in 1..Len(words) : words[i] = w
  THEN (CHOOSE k \in 1..Len(words) :
          words[k] = w /\ \A j \in 1..(k - 1) : words[j] # w) - 1
  ELSE -1

\* words[k] with a 0-based k: undefined beyond the end
Elem(words, k) ==
  IF k + 1 \in 1..Len(words) THEN words[k + 1] ELSE Undefined

\* Length of the match of /(\d{1,2}):(\d{2})/ that starts at position i, 0 if none
MatchLenAt(s, i) ==
  IF /\ i + 4 <= Len(s)
     /\ s[i] \in Digits /\ s[i + 1] \in Digits /\ s[i + 2] = ":"
     /\ s[i + 3] \in Digits /\ s[i + 4] \in Digits
  THEN 5
  ELSE IF /\ i + 3 <= Len(s)
          /\ s[i] \in Digits /\ s[i + 1] = ":"
          /\ s[i + 2] \in Digits /\ s[i + 3] \in Digits
       THEN 4
       ELSE 0

\* text.match(timeRegex): the leftmost match, or null
TimeMatch(s) ==
  IF \E i \in 1..Len(s) : MatchLenAt(s, i) > 0
  THEN LET i == CHOOSE k \in 1..Len(s) :
                  MatchLenAt(s, k) > 0 /\ \A j \in 1..(k - 1) : MatchLenAt(s, j) = 0
       IN SubSeq(s, i, i + MatchLenAt(s, i) - 1)
  ELSE Null

----------------------------------------------------------------------------
(* The extractors *)

\* App.processTranscript
processTranscript(t) ==
  LET words == Split(t)
      dateIndex == IndexOf(words, On)
      timeIndex == IndexOf(words, At)
  IN [date |-> IF dateIndex # -1 THEN Elem(words, dateIndex + 1) ELSE Today,
      time |-> IF timeIndex # -1 THEN Elem(words, timeIndex + 1) ELSE DefaultTime,
      text |-> t]

\* What dateParser.parse (library `natural`) may return: null or a date,
\* the date standing for its toISOString().split('T')[0]
ParsedDate == <<"2", "0", "2", "4", "-", "0", "6", "-", "0", "1">>
ParseOutcomes == {Null, ParsedDate}

\* processNaturalLanguage; parsed is the value dateParser.parse(text) returned.
\* The tokens of line 19 are computed and never read.
processNaturalLanguage(text, parsed) ==
  LET timeMatch == TimeMatch(text)
      time == IF timeMatch # Null THEN timeMatch ELSE DefaultTime
  IN [date |-> IF parsed # Null THEN parsed ELSE Today,
      time |-> time,
      text |-> text]

----------------------------------------------------------------------------
(* Extraction harness: inputs are joins of up to MaxTokens tokens *)

DateTok == <<"7">>
TimeTok == <<"5", ":", "3", "0">>
Tokens == {On, At, DateTok, TimeTok, <<>>}

RECURSIVE Join(_)
Join(toks) ==
  IF Len(toks) = 0 THEN <<>>
  ELSE IF Len(toks) = 1 THEN toks[1]
  ELSE toks[1] \o <<" ">> \o Join(Tail(toks))

TokenSeqs == UNION {[1..n -> Tokens] : n \in 0..MaxTokens}

NoDraft == [date |-> Null, time |-> Null, text |-> Null]

----------------------------------------------------------------------------
(* The session controller: constants *)

VCA == "VoiceCalendarAssistant"
APP == "App"

FailureMessage == "Sorry, there was an error processing your request."
AIReply == "AI reply"            \* the text getAIResponse resolves with

\* "m on 7 at 5:30": what speech or typing may put in the field
Utterance1 == <<"m", " ">> \o On \o <<" ">> \o DateTok \o <<" ">> \o At \o <<" ">> \o TimeTok
Utterances == {<<>>, Utterance1}

EditData == <<"e">>              \* the text an edit dialog submits

NoPayload == [id |-> -1, date |-> Null, time |-> Null, text |-> Null]

\* The item the reminder store holds before the page is opened
Item0 == [id |-> 0, text |-> <<"r">>]

----------------------------------------------------------------------------
(* The external stores (contracts of spec section 6) *)

\* create(DraftEntry) -> Reminder: an entity with an opaque id and a display text
StoreCreate(store, id, d) == Append(store, [id |-> id, text |-> d.text])

StoreUpdate(store, id, data) ==
  [i \in DOMAIN store |->
     IF store[i].id = id THEN [store[i] EXCEPT !.text = data] ELSE store[i]]

StoreDelete(store, id) == SelectSeq(store, LAMBDA it : it.id # id)

StoreOf(list) == IF list = "reminders" THEN reminderStore ELSE eventStore

----------------------------------------------------------------------------
(* Pieces of the handlers *)

\* Mutant of SubmitDisabled: the button is never disabled
SubmitNeverDisabled == FALSE

\* <Button onClick={handleSubmit} disabled={isLoading}>
SubmitDisabled == isLoading

\* The list handleSubmit writes to and reloads: events in
\* VoiceCalendarAssistant (addEvent, loadEvents), reminders in App
SubmitList == IF component = VCA THEN "events" ELSE "reminders"

\* Mutant of SetList: the fetched items are added to the cached ones
SetListAppend(old, fetched) == old \o fetched

\* setReminders(fetchedReminders) / setEvents(fetchedEvents)
SetList(old, fetched) == fetched

\* Mutant of ReloadAfterWrite: the reload is in a finally block
ReloadAlways(ok) == TRUE

\* handleUpdate* / handleDelete*: `await store call; await load()`: the reload
\* is reached only when the store call resolved
ReloadAfterWrite(ok) == ok

\* Mutant of CatchBlock: the catch block also clears the transcript
CatchBlockClearing == [aiResponse |-> FailureMessage, transcript |-> <<>>]

\* catch block of handleSubmit: the state it leaves
CatchBlock == [aiResponse |-> FailureMessage, transcript |-> transcript]

\* Mutant of FinallyIsLoading: setIsLoading(false) at the end of the try block
LoadingResetInTry(failed) == failed

\* finally block of handleSubmit: setIsLoading(false)
FinallyIsLoading(failed) == FALSE

\* end of the try block of handleSubmit: setTranscript('')
TranscriptAfterSuccess == <<>>

Cached(list) == IF list = "reminders" THEN reminders ELSE events

\* History of the fetches of a list that completed successfully: the result of
\* the one that completed last, and the result of the one issued latest
LogFetch(list, seq, result) ==
  [fetchLog EXCEPT ![list] =
     [last |-> result,
      newestSeq |-> IF seq > @.newestSeq THEN seq ELSE @.newestSeq,
      newest |-> IF seq > @.newestSeq THEN result ELSE @.newest]]

\* setReminders / setEvents with the result of a resolved fetch
ApplyFetch(t) ==
  /\ reminders' = IF t.list = "reminders" THEN SetList(reminders, t.result) ELSE reminders
  /\ events' = IF t.list = "events" THEN SetList(events, t.result) ELSE events
  /\ fetchLog' = LogFetch(t.list, t.seq, t.result)

NewTask(kind, stage, list, payload, query, seq) ==
  [id |-> nextTaskId, kind |-> kind, stage |-> stage, net |-> "sent",
   list |-> list, payload |-> payload, query |-> query, result |-> <<>>,
   seq |-> seq]

\* The run may take another user or speech event
EventsLeft == userEvents < MaxEvents

----------------------------------------------------------------------------
(* Initial state: the component has mounted; the mount effect has created  *)
(* the recognizer and called loadReminders()                               *)

InitFetchLog ==
  [l \in {"reminders", "events"} |-> [last |-> <<>>, newestSeq |-> 0, newest |-> <<>>]]

InitCtl ==
  /\ component \in {VCA, APP}
  /\ mounted = TRUE
  /\ isListening = FALSE
  /\ transcript = <<>>
  /\ reminders = <<>>
  /\ events = <<>>
  /\ aiResponse = ""
  /\ isLoading = FALSE
  /\ inputFocused = FALSE
  /\ recognition = [active |-> FALSE, calls |-> <<>>]
  /\ reminderStore = <<Item0>>
  /\ eventStore = <<>>
  /\ nextItemId = 1
  /\ tasks = {[id |-> 0, kind |-> "mount", stage |-> "reload", net |-> "sent",
               list |-> "reminders", payload |-> NoPayload, query |-> <<>>,
               result |-> <<>>, seq |-> 1]}
  /\ nextTaskId = 1
  /\ fetchSeq = 1
  /\ fetchLog = InitFetchLog
  /\ userEvents = 0

InitEx == input = <<>> /\ draft = NoDraft /\ extracted = "none"

Init == InitCtl /\ InitEx

----------------------------------------------------------------------------
(* Capture *)

\* Mutant of toggleListening: the handler reads the isListening of the first
\* render (false) on every call
toggleListeningStale ==
  /\ recognition' = [recognition EXCEPT !.calls = Append(@, "start"), !.active = TRUE]
  /\ isListening' = TRUE

\* toggleListening; start() on a running recognizer throws InvalidStateError
\* and the handler ends before setIsListening
toggleListening ==
  IF isListening
  THEN /\ recognition' = [active |-> FALSE, calls |-> Append(recognition.calls, "stop")]
       /\ isListening' = ~isListening
  ELSE IF recognition.active
       THEN /\ recognition' = [recognition EXCEPT !.calls = Append(@, "start")]
            /\ isListening' = isListening
       ELSE /\ recognition' = [active |-> TRUE, calls |-> Append(recognition.calls, "start")]
            /\ isListening' = ~isListening

\* Click on the Start/Stop Listening button (which takes the focus)
ToggleClick ==
  /\ mounted
  /\ EventsLeft
  /\ toggleListening
  /\ inputFocused' = FALSE
  /\ userEvents' = userEvents + 1
  /\ UNCHANGED <<component, transcript, reminders, events, aiResponse, isLoading,
                 reminderStore, eventStore, nextItemId, tasks, nextTaskId, fetchSeq,
                 fetchLog, mounted, exVars>>

\* window keydown listener: handleKeyPress
KeyDown ==
  /\ mounted
  /\ EventsLeft
  /\ \E code \in {"Space", "KeyA"} :
       IF code = "Space"
       THEN toggleListening
       ELSE UNCHANGED <<recognition, isListening>>
  /\ userEvents' = userEvents + 1
  /\ UNCHANGED <<component, transcript, reminders, events, aiResponse, isLoading,
                 inputFocused, reminderStore, eventStore, nextItemId, tasks, nextTaskId,
                 fetchSeq, fetchLog, mounted, exVars>>

\* The component unmounts: the cleanup of the mount effect calls
\* recognitionRef.current.stop(), the cleanup of the keydown effect removes the
\* listener, the page elements leave the document. Suspended handlers go on
\* and call their setters as before; each state variable keeps the value last
\* passed to its setter, and the cleanup calls no setter.
Unmount ==
  /\ EventsLeft
  /\ mounted
  /\ mounted' = FALSE
  /\ recognition' = [active |-> FALSE, calls |-> Append(recognition.calls, "stop")]
  /\ inputFocused' = FALSE
  /\ userEvents' = userEvents + 1
  /\ UNCHANGED <<component, isListening, transcript, reminders, events, aiResponse,
                 isLoading, reminderStore, eventStore, nextItemId, tasks, nextTaskId,
                 fetchSeq, fetchLog, exVars>>

\* recognition.onresult: setTranscript(transcript of the latest result),
\* whenever the recognizer delivers a result
SpeechResult ==
  /\ EventsLeft
  /\ \E u \in Utterances : transcript' = u
  /\ userEvents' = userEvents + 1
  /\ UNCHANGED <<component, isListening, reminders, events, aiResponse, isLoading,
                 inputFocused, recognition, reminderStore, eventStore, nextItemId, tasks,
                 nextTaskId, fetchSeq, fetchLog, mounted, exVars>>

\* <Input onChange={(e) => setTranscript(e.target.value)}>: the user types in
\* the transcript field, which has or takes the focus
TypeTranscript ==
  /\ mounted
  /\ EventsLeft
  /\ \E u \in Utterances : transcript' = u
  /\ inputFocused' = TRUE
  /\ userEvents' = userEvents + 1
  /\ UNCHANGED <<component, isListening, reminders, events, aiResponse, isLoading,
                 recognition, reminderStore, eventStore, nextItemId, tasks,
                 nextTaskId, fetchSeq, fetchLog, mounted, exVars>>

----------------------------------------------------------------------------
(* Submit, edit and delete: the handler up to its first await on the network *)

\* Click on the Submit button: handleSubmit up to its first await. In
\* VoiceCalendarAssistant that is `await processNaturalLanguage(transcript)`:
\* the extractor has run, addEvent is called when the handler resumes. In App
\* processTranscript is not awaited and the handler goes on to
\* `await addReminder(...)`. The closure keeps the transcript of the render it
\* was created in.
SubmitClick ==
  /\ mounted
  /\ ~SubmitDisabled
  /\ EventsLeft
  /\ \E parsed \in (IF component = VCA THEN ParseOutcomes ELSE {Null}) :
       LET d == IF component = VCA
                THEN processNaturalLanguage(transcript, parsed)
                ELSE processTranscript(transcript)
           call == NewTask("submit", "create", SubmitList,
                           [id |-> -1, date |-> d.date, time |-> d.time, text |-> d.text],
                           transcript, 0)
       IN tasks' = tasks \cup
            {IF component = VCA
             THEN [call EXCEPT !.stage = "extract", !.net = "ok"]
             ELSE call}
  /\ isLoading' = TRUE
  /\ nextTaskId' = nextTaskId + 1
  /\ inputFocused' = FALSE
  /\ userEvents' = userEvents + 1
  /\ UNCHANGED <<component, isListening, transcript, reminders, events, aiResponse,
                 recognition, reminderStore, eventStore, nextItemId, fetchSeq, fetchLog,
                 mounted, exVars>>

\* An edit or delete handler up to `await updateX(id, data) / deleteX(id)`
StartWrite(kind, list, id, data) ==
  /\ mounted
  /\ EventsLeft
  /\ tasks' = tasks \cup
       {NewTask(kind, "write", list,
                [id |-> id, date |-> Null, time |-> Null, text |-> data],
                <<>>, 0)}
  /\ nextTaskId' = nextTaskId + 1
  /\ inputFocused' = FALSE
  /\ userEvents' = userEvents + 1
  /\ UNCHANGED <<component, isListening, transcript, reminders, events, aiResponse,
                 isLoading, recognition, reminderStore, eventStore, nextItemId, fetchSeq,
                 fetchLog, mounted, exVars>>

\* The Update button of a rendered reminder's dialog
handleUpdateReminder ==
  \E i \in DOMAIN reminders : StartWrite("update", "reminders", reminders[i].id, EditData)

\* The Delete button of a rendered reminder
handleDeleteReminder ==
  \E i \in DOMAIN reminders : StartWrite("delete", "reminders", reminders[i].id, Null)

\* The Update button of a rendered event's dialog
handleUpdateEvent ==
  \E i \in DOMAIN events : StartWrite("update", "events", events[i].id, EditData)

\* The Delete button of a rendered event
handleDeleteEvent ==
  \E i \in DOMAIN events : StartWrite("delete", "events", events[i].id, Null)

----------------------------------------------------------------------------
(* The server side of an awaited store call *)

Replace(t, u) == (tasks \ {t}) \cup {u}

\* The store handles the request: its effect is applied, its result fixed.
\* The response reaches the page at a later step.
ServerResolve ==
  \E t \in tasks :
    /\ t.net = "sent"
    /\ \/ /\ t.stage = "create"
          /\ reminderStore' = IF t.list = "reminders"
                              THEN StoreCreate(reminderStore, nextItemId, t.payload)
                              ELSE reminderStore
          /\ eventStore' = IF t.list = "events"
                           THEN StoreCreate(eventStore, nextItemId, t.payload)
                           ELSE eventStore
          /\ nextItemId' = nextItemId + 1
          /\ tasks' = Replace(t, [t EXCEPT !.net = "ok"])
       \/ /\ t.stage = "write"
          /\ LET apply(store) == IF t.kind = "update"
                                 THEN StoreUpdate(store, t.payload.id, t.payload.text)
                                 ELSE StoreDelete(store, t.payload.id)
             IN /\ reminderStore' = IF t.list = "reminders"
                                    THEN apply(reminderStore) ELSE reminderStore
                /\ eventStore' = IF t.list = "events"
                                 THEN apply(eventStore) ELSE eventStore
          /\ tasks' = Replace(t, [t EXCEPT !.net = "ok"])
          /\ UNCHANGED nextItemId
       \/ /\ t.stage = "reload"
          /\ tasks' = Replace(t, [t EXCEPT !.net = "ok", !.result = StoreOf(t.list)])
          /\ UNCHANGED <<reminderStore, eventStore, nextItemId>>
    /\ UNCHANGED <<component, isListening, transcript, reminders, events, aiResponse,
                   isLoading, inputFocused, recognition, nextTaskId, fetchSeq, fetchLog,
                   userEvents, mounted, exVars>>

\* How the await of t may settle now: a store call resolves once the store
\* has handled it and rejects (network, validation, timeout) if it never does;
\* the AI query resolves with a reply or rejects
Settlements(t) ==
  IF t.stage = "ai" THEN BOOLEAN
  ELSE IF t.net = "ok" THEN {TRUE} ELSE {FALSE}

----------------------------------------------------------------------------
(* Continuations: the handler from the settled await to its next await or end *)

\* `await getEvents() / getReminders()` issued by the continuation of t
IssueFetch(t) ==
  /\ tasks' = Replace(t, [t EXCEPT !.stage = "reload", !.net = "sent",
                                   !.seq = fetchSeq + 1])
  /\ fetchSeq' = fetchSeq + 1

\* catch and finally of handleSubmit
SubmitCatch(t) ==
  /\ aiResponse' = CatchBlock.aiResponse
  /\ transcript' = CatchBlock.transcript
  /\ isLoading' = FinallyIsLoading(TRUE)
  /\ tasks' = tasks \ {t}

\* VoiceCalendarAssistant.handleSubmit after `await processNaturalLanguage(...)`:
\* addEvent({ date, time, text }) is called and awaited
SubmitAfterExtract ==
  \E t \in tasks :
    /\ t.kind = "submit" /\ t.stage = "extract"
    /\ tasks' = Replace(t, [t EXCEPT !.stage = "create", !.net = "sent"])
    /\ UNCHANGED <<component, isListening, transcript, reminders, events, aiResponse,
                   isLoading, inputFocused, recognition, reminderStore, eventStore,
                   nextItemId, nextTaskId, fetchSeq, fetchLog, userEvents, mounted,
                   exVars>>

\* handleSubmit after `await addEvent / addReminder`; the draft is not used again
SubmitAfterCreate ==
  \E t \in tasks :
    /\ t.kind = "submit" /\ t.stage = "create"
    /\ \E ok \in Settlements(t) :
         IF ok
         THEN /\ tasks' = Replace(t, [t EXCEPT !.stage = "ai", !.net = "sent",
                                                !.payload = NoPayload])
              /\ UNCHANGED <<aiResponse, transcript, isLoading>>
         ELSE SubmitCatch(t)
    /\ UNCHANGED <<component, isListening, reminders, events, inputFocused, recognition,
                   reminderStore, eventStore, nextItemId, nextTaskId, fetchSeq, fetchLog,
                   userEvents, mounted, exVars>>

\* handleSubmit after `await getAIResponse(transcript)`
SubmitAfterAI ==
  \E t \in tasks :
    /\ t.kind = "submit" /\ t.stage = "ai"
    /\ \E ok \in Settlements(t) :
         IF ok
         THEN /\ aiResponse' = AIReply
              /\ IssueFetch(t)
              /\ UNCHANGED <<transcript, isLoading>>
         ELSE /\ SubmitCatch(t)
              /\ UNCHANGED fetchSeq
    /\ UNCHANGED <<component, isListening, reminders, events, inputFocused, recognition,
                   reminderStore, eventStore, nextItemId, nextTaskId, fetchLog, userEvents,
                   mounted, exVars>>

\* handleSubmit after `await loadEvents() / loadReminders()`, the load having
\* run to its end or thrown: setTranscript('') or the catch block, then finally
SubmitAfterReload ==
  \E t \in tasks :
    /\ t.kind = "submit" /\ t.stage = "reloaded"
    /\ IF t.net = "ok"
       THEN /\ transcript' = TranscriptAfterSuccess
            /\ isLoading' = FinallyIsLoading(FALSE)
            /\ tasks' = tasks \ {t}
            /\ UNCHANGED aiResponse
       ELSE SubmitCatch(t)
    /\ UNCHANGED <<component, isListening, reminders, events, inputFocused, recognition,
                   reminderStore, eventStore, nextItemId, nextTaskId, fetchSeq, fetchLog,
                   userEvents, mounted, exVars>>

\* handleUpdate* / handleDelete* after `await updateX / deleteX`; a rejection
\* leaves the handler (unhandled)
WriteSettled ==
  \E t \in tasks :
    /\ t.stage = "write"
    /\ \E ok \in Settlements(t) :
         IF ReloadAfterWrite(ok)
         THEN IssueFetch(t)
         ELSE tasks' = tasks \ {t} /\ UNCHANGED fetchSeq
    /\ UNCHANGED <<component, isListening, transcript, reminders, events, aiResponse,
                   isLoading, inputFocused, recognition, reminderStore, eventStore,
                   nextItemId, nextTaskId, fetchLog, userEvents, mounted, exVars>>

\* loadReminders / loadEvents after `await getX()`: setX(fetched), or the
\* rejection leaves the load. Called from the mount effect or as the last
\* statement of an edit / delete handler the rejection is unhandled; awaited by
\* handleSubmit the outcome reaches that handler at a later step.
LoadSettled ==
  \E t \in tasks :
    /\ t.stage = "reload"
    /\ \E ok \in Settlements(t) :
         /\ IF ok
            THEN ApplyFetch(t)
            ELSE UNCHANGED <<reminders, events, fetchLog>>
         /\ tasks' = IF t.kind = "submit"
                     THEN Replace(t, [t EXCEPT !.stage = "reloaded",
                                               !.net = IF ok THEN "ok" ELSE "failed"])
                     ELSE tasks \ {t}
    /\ UNCHANGED <<component, isListening, transcript, aiResponse, isLoading,
                   inputFocused, recognition, reminderStore, eventStore, nextItemId,
                   nextTaskId, fetchSeq, userEvents, mounted, exVars>>

----------------------------------------------------------------------------
(* Specification of the controller *)

Next ==
  \/ ToggleClick
  \/ KeyDown
  \/ Unmount
  \/ SpeechResult
  \/ TypeTranscript
  \/ SubmitClick
  \/ handleUpdateReminder
  \/ handleDeleteReminder
  \/ handleUpdateEvent
  \/ handleDeleteEvent
  \/ ServerResolve
  \/ SubmitAfterExtract
  \/ SubmitAfterCreate
  \/ SubmitAfterAI
  \/ SubmitAfterReload
  \/ WriteSettled
  \/ LoadSettled

Spec == Init /\ [][Next]_vars

\* Every awaited external call eventually resolves or rejects, and the event
\* loop eventually runs the continuation of a settled await
Fairness ==
  /\ WF_vars(SubmitAfterExtract)
  /\ WF_vars(SubmitAfterCreate)
  /\ WF_vars(SubmitAfterAI)
  /\ WF_vars(SubmitAfterReload)
  /\ WF_vars(WriteSettled)
  /\ WF_vars(LoadSettled)

LiveSpec == Spec /\ Fairness

----------------------------------------------------------------------------
(* Specification of the extraction harness *)

ExInit ==
  /\ InitCtl
  /\ component = APP
  /\ \E toks \in TokenSeqs : input = Join(toks)
  /\ draft = NoDraft
  /\ extracted = "none"

\* const { date, time, text } = processTranscript(transcript)
ExtractKeyword ==
  /\ extracted = "none"
  /\ draft' = processTranscript(input)
  /\ extracted' = "processTranscript"
  /\ UNCHANGED <<ctlVars, input>>

\* const { date, time, text } = await processNaturalLanguage(transcript)
ExtractPattern ==
  /\ extracted = "none"
  /\ \E parsed \in ParseOutcomes : draft' = processNaturalLanguage(input, parsed)
  /\ extracted' = "processNaturalLanguage"
  /\ UNCHANGED <<ctlVars, input>>

ExNext == ExtractKeyword \/ ExtractPattern

ExSpec == ExInit /\ [][ExNext]_vars

----------------------------------------------------------------------------
(* Properties *)

SubmitsInFlight == {t \in tasks : t.kind = "submit"}

\* The handler invocation t ends in this step
Ends(t) == \A u \in tasks' : u.id # t.id

\* The handler invocation t leaves its await of the store write in this step
LeavesWrite(t) == \A u \in tasks' : u.id = t.id => u.stage # "write"

\* Position of a handleSubmit in its pipeline
StageRank(stage) ==
  CASE stage = "extract" -> 0
    [] stage = "create" -> 1
    [] stage = "ai" -> 2
    [] stage = "reload" -> 3
    [] stage = "reloaded" -> 4

\* C1: while a handleSubmit is in flight no further pipeline starts (no
\* additional store-create call), the pipeline in flight never goes back to a
\* call it has made (one create, one AI query), and isLoading is set.
C1_SubmitInFlightIsExclusive ==
  [][\A t \in SubmitsInFlight :
       /\ isLoading
       /\ \A u \in SubmitsInFlight' :
            /\ u.id = t.id
            /\ StageRank(u.stage) \in {StageRank(t.stage), StageRank(t.stage) + 1}]_vars

C1_Witness ==
  \E t \in tasks :
    t.kind = "submit" /\ t.stage = "ai" /\ mounted /\ EventsLeft /\ isLoading

\* C2: when a submit whose store-create and AI query succeeded completes, the
\* transcript is empty and both cached lists equal what list() of their store
\* returns.
C2_Original ==
  [][\A t \in tasks :
       (t.kind = "submit" /\ t.stage = "reloaded" /\ Ends(t)) =>
         /\ transcript' = <<>>
         /\ reminders' = reminderStore'
         /\ events' = eventStore']_vars

\* C3 as stated: when a submit fails at the store-create or the AI query, the
\* transcript equals its pre-submit value, the AI response is the failure
\* string, the submit attempted no list reload and changed no cached list.
C3_Original ==
  [][\A t \in tasks :
       (t.kind = "submit" /\ t.stage \in {"create", "ai"} /\ Ends(t)) =>
         /\ transcript' = t.query
         /\ aiResponse' = FailureMessage
         /\ t.seq = 0 /\ fetchSeq' = fetchSeq
         /\ reminders' = reminders /\ events' = events]_vars

\* C3 amended: when a submit fails at the store-create or the AI query, the
\* submit leaves the transcript as it finds it (the value speech or typing
\* last gave it), the AI response is the failure string, the submit attempted
\* no list reload and changed no cached list.
C3_SubmitFailure ==
  [][\A t \in tasks :
       (t.kind = "submit" /\ t.stage \in {"create", "ai"} /\ Ends(t)) =>
         /\ transcript' = transcript
         /\ aiResponse' = FailureMessage
         /\ t.seq = 0 /\ fetchSeq' = fetchSeq
         /\ reminders' = reminders /\ events' = events]_vars

C3_Witness ==
  /\ aiResponse = FailureMessage /\ ~isLoading /\ SubmitsInFlight = {}
  /\ fetchSeq = 1 /\ transcript # <<>>

\* The tokens i..i+3 of words are "on", D, "at", T
PhraseAt(words, i) ==
  i + 3 <= Len(words) /\ words[i] = On /\ words[i + 2] = At

\* C4 as stated: for every input holding the tokens on, D, at, T in a row,
\* wherever they occur, processTranscript returns date D, time T, text s.
C4_Original ==
  extracted = "processTranscript" =>
    LET words == Split(input)
    IN \A i \in 1..Len(words) :
         PhraseAt(words, i) =>
           /\ draft.date = words[i + 1]
           /\ draft.time = words[i + 3]
           /\ draft.text = input

\* C4 amended: for every input holding the tokens on, D, at, T in a row, where
\* no token before that "on" is "on" and no token before that "at" is "at",
\* processTranscript returns date D, time T, text s.
C4_FirstKeywords ==
  extracted = "processTranscript" =>
    LET words == Split(input)
    IN \A i \in 1..Len(words) :
         (/\ PhraseAt(words, i)
          /\ \A j \in 1..(i - 1) : words[j] # On
          /\ \A j \in 1..(i + 1) : words[j] # At) =>
           /\ draft.date = words[i + 1]
           /\ draft.time = words[i + 3]
           /\ draft.text = input

C4_Witness ==
  /\ extracted = "processTranscript"
  /\ LET words == Split(input)
     IN \E i \in 2..Len(words) :
          /\ PhraseAt(words, i)
          /\ \A j \in 1..(i - 1) : words[j] # On
          /\ \A j \in 1..(i + 1) : words[j] # At
          /\ draft.date = DateTok /\ draft.time = TimeTok

\* C5: extraction is total: for every input each extractor returns a draft
\* whose date, time and text are defined strings, text being the input.
C5_ExtractionTotal ==
  extracted # "none" =>
    /\ draft.date \notin {Undefined, Null}
    /\ draft.time \notin {Undefined, Null}
    /\ draft.text = input

\* C6: while the keyboard focus stays in the transcript field no key toggles
\* capture: isListening and the recognizer are left alone.
C6_NoToggleWhileTyping ==
  [][(inputFocused /\ inputFocused') =>
       (isListening' = isListening /\ recognition' = recognition)]_vars

\* C7: while the component is mounted, isListening is true exactly when the
\* recognizer was started and not stopped since, the recognizer has received
\* start and stop in alternation, and after two toggles it has received
\* start() then stop() and nothing is active; capture is active only while
\* the component is mounted and isListening is true.
C7_ToggleTwiceReturnsToIdle ==
  /\ recognition.active => (mounted /\ isListening)
  /\ mounted =>
       /\ isListening <=> recognition.active
       /\ isListening <=> (recognition.calls # <<>>
                           /\ recognition.calls[Len(recognition.calls)] = "start")
       /\ \A i \in 1..Len(recognition.calls) :
            recognition.calls[i] = IF i % 2 = 1 THEN "start" ELSE "stop"
       /\ Len(recognition.calls) = 2 =>
            (recognition.calls = <<"start", "stop">> /\ ~isListening
             /\ ~recognition.active)

C7_Witness == mounted /\ recognition.calls = <<"start", "stop">> /\ ~isListening

\* C8 as stated: each cached list equals the result of the most recently
\* issued fetch of that list that has completed successfully.
C8_Original ==
  /\ reminders = fetchLog["reminders"].newest
  /\ events = fetchLog["events"].newest

\* C8 amended: each cached list equals the full result of the fetch of that
\* list that completed successfully last (the empty list before any has);
\* of overlapping fetches the one whose response arrives last wins.
C8_LastCompletedFetch ==
  /\ reminders = fetchLog["reminders"].last
  /\ events = fetchLog["events"].last

C8_Witness ==
  \E l \in {"reminders", "events"} :
    fetchLog[l].last # fetchLog[l].newest /\ Cached(l) = fetchLog[l].last

\* C9 as stated: when the store call of an edit or delete settles, resolved or
\* rejected, a reload of its list is issued; no step of the handler up to
\* there changes a cached list.
C9_Original ==
  [][/\ \A t \in tasks :
          (t.stage = "write" /\ LeavesWrite(t)) =>
            /\ \E u \in tasks' : u.id = t.id /\ u.stage = "reload" /\ u.list = t.list
            /\ reminders' = reminders /\ events' = events
     /\ \A u \in tasks' :
          (u.stage = "write" /\ \A t \in tasks : t.id # u.id) =>
            (reminders' = reminders /\ events' = events)]_vars

\* C9 amended: when the store call of an edit or delete settles, a reload of
\* its list is issued if the call resolved and the handler ends without a
\* reload if it rejected; no step of the handler up to there changes a cached
\* list.
C9_ReloadAfterResolvedWrite ==
  [][/\ \A t \in tasks :
          (t.stage = "write" /\ LeavesWrite(t)) =>
            /\ IF t.net = "ok"
               THEN /\ \E u \in tasks' :
                         /\ u.id = t.id /\ u.stage = "reload" /\ u.net = "sent"
                         /\ u.list = t.list
                    /\ fetchSeq' = fetchSeq + 1
               ELSE Ends(t) /\ fetchSeq' = fetchSeq
            /\ reminders' = reminders /\ events' = events
     /\ \A u \in tasks' :
          (u.stage = "write" /\ \A t \in tasks : t.id # u.id) =>
            (reminders' = reminders /\ events' = events)]_vars

C9_Witness ==
  \E t \in tasks : t.kind \in {"update", "delete"} /\ t.stage = "reload"

\* C10: if every awaited call settles, every submit ends: isLoading returns
\* to false, which enables the Submit button again.
C10_SubmitEnds == isLoading ~> (~isLoading /\ ~SubmitDisabled)

C10_Witness ==
  /\ aiResponse = FailureMessage /\ ~isLoading /\ SubmitsInFlight = {}
  /\ fetchSeq > 1
====
